---- MODULE Spec2Model ----
(***************************************************************************)
(* Model of the builtin rewrite engine (analyzer/builtin.rs,               *)
(* replace_builtin) and of the pattern mapping classification              *)
(* (references/pattern_mapping.rs, PatternMappingVc::resolve_request).     *)
(*                                                                         *)
(* A JsValue is a record with a "kind" field and the children of that      *)
(* variant.  A ConstantValue carries ty/s/n: Str(s), or Num with n the     *)
(* number counted in halves (n = 3 is 1.5) and s = "NaN" for not-a-number. *)
(***************************************************************************)
EXTENDS Integers, Sequences, FiniteSets, TLC

VARIABLES value, prev, changed, panicked, pc,
          resolve_result, resolve_type, mapping, issues, pm_pc,
          key_expr, expr, pm_panicked,
          seen, reproduced, inlined

rb_vars == <<value, prev, changed, panicked, pc>>
pm_vars == <<resolve_result, resolve_type, mapping, issues, pm_pc,
             key_expr, expr, pm_panicked>>
\* The driver's run so far: the values the tree has had, whether a firing
\* gave one of them again, whether a Function call was inlined.
dr_vars == <<seen, reproduced, inlined>>
vars == <<value, prev, changed, panicked, pc,
          resolve_result, resolve_type, mapping, issues, pm_pc,
          key_expr, expr, pm_panicked, seen, reproduced, inlined>>

\* Longest sequence (items, parts, alternatives, args, assets) in an input.
MaxLen == 2

-----------------------------------------------------------------------------
(* JsValue constructors *)

Str(s) == [kind |-> "Constant", ty |-> "Str", s |-> s, n |-> 0]
Num(h) == [kind |-> "Constant", ty |-> "Num", s |-> "", n |-> h]
NaN == [kind |-> "Constant", ty |-> "Num", s |-> "NaN", n |-> 0]
Array(items) == [kind |-> "Array", items |-> items]
Object(parts) == [kind |-> "Object", parts |-> parts]
KeyValue(k, v) == [part |-> "KeyValue", key |-> k, val |-> v]
Spread(v) == [part |-> "Spread", val |-> v]
Concat(items) == [kind |-> "Concat", items |-> items]
Add(items) == [kind |-> "Add", items |-> items]
Url(v) == [kind |-> "Url", val |-> v]
Function(body) == [kind |-> "Function", body |-> body]
Call(callee, args) == [kind |-> "Call", callee |-> callee, args |-> args]
MemberCall(obj, prop, args) ==
    [kind |-> "MemberCall", obj |-> obj, prop |-> prop, args |-> args]
Member(obj, prop) == [kind |-> "Member", obj |-> obj, prop |-> prop]
Alternatives(items) == [kind |-> "Alternatives", items |-> items]
\* Unknown(Option<Arc<JsValue>>, &str): inner is <<>> (None) or <<v>> (Some).
Unknown(inner, reason) == [kind |-> "Unknown", inner |-> inner, reason |-> reason]
FreeVar(name) == [kind |-> "FreeVar", name |-> name]
Variable(id) == [kind |-> "Variable", id |-> id]
WellKnownObject(k) == [kind |-> "WellKnownObject", wk |-> k]
WellKnownFunction(k) == [kind |-> "WellKnownFunction", wk |-> k]
Argument(i) == [kind |-> "Argument", index |-> i]
Module(r) == [kind |-> "Module", ref |-> r]

\* JsValue::FreeVar(FreeVarKind::Other("undefined".into()))
Undefined == FreeVar("undefined")

ListKinds == {"Array", "Concat", "Add", "Alternatives"}

\* The kinds every "keep ... intact" arm of replace_builtin lists.
DeferredKinds ==
    {"FreeVar", "Variable", "Call", "MemberCall", "Member", "WellKnownObject",
     "Argument", "WellKnownFunction", "Module"}

RECURSIVE FlattenSeq(_)
FlattenSeq(ss) == IF ss = <<>> THEN <<>> ELSE Head(ss) \o FlattenSeq(Tail(ss))

-----------------------------------------------------------------------------
(* Operations of JsValue that replace_builtin calls *)

PartChildren(p) == IF p.part = "KeyValue" THEN <<p.key, p.val>> ELSE <<p.val>>

\* The owned children of a node, in order.  The justification of an Unknown
\* is shared and immutable, not a child.
Children(v) ==
    CASE v.kind \in ListKinds -> v.items
      [] v.kind = "Object" -> FlattenSeq([i \in 1..Len(v.parts) |-> PartChildren(v.parts[i])])
      [] v.kind = "Url" -> <<v.val>>
      [] v.kind = "Function" -> <<v.body>>
      [] v.kind = "Call" -> <<v.callee>> \o v.args
      [] v.kind = "MemberCall" -> <<v.obj, v.prop>> \o v.args
      [] v.kind = "Member" -> <<v.obj, v.prop>>
      [] OTHER -> <<>>

PlaceholderKinds ==
    {"Unknown", "Argument", "FreeVar", "Variable", "Call", "MemberCall", "Member",
     "WellKnownObject", "WellKnownFunction", "Module"}

RECURSIVE has_placeholder(_)
has_placeholder(v) ==
    \/ v.kind \in PlaceholderKinds
    \/ \E i \in 1..Len(Children(v)) : has_placeholder(Children(v)[i])

\* value.make_unknown(reason): the old value becomes the justification.
make_unknown(v, reason) == Unknown(<<v>>, reason)

-----------------------------------------------------------------------------
(* replace_builtin: the outcome of one call is the value left in place, the *)
(* boolean returned, and whether the call aborted (unreachable!() or a      *)
(* failed debug_assert!).                                                   *)

Ret(v, c) == [value |-> v, changed |-> c, panic |-> FALSE]
Abort(v) == [value |-> v, changed |-> FALSE, panic |-> TRUE]
DebugAssert(cond, r) == IF cond THEN r ELSE [r EXCEPT !.panic = TRUE]

\* `*num as usize`: a saturating cast, NaN and negatives give 0, the
\* fraction is dropped.
AsUsize(c) == IF c.s = "NaN" \/ c.n < 0 THEN 0 ELSE c.n \div 2

\* The comparison left out: any number indexes by its truncation.
IndexEqualsNumTruncating(index, c) == c.s # "NaN"

\* `index as f64 == *num`
IndexEqualsNum(index, c) == c.s # "NaN" /\ 2 * index = c.n

\* array.swap_remove(index): the element that was at `index`.
swap_remove(items, index) == items[index + 1]

items_to_alternatives(items, prop) ==
    Alternatives(Append(items,
        Unknown(<<Member(Array(<<>>), prop)>>,
                "unknown array prototype methods or values")))

DistributeProp(obj, alts) ==
    Alternatives([i \in 1..Len(alts) |-> Member(obj, alts[i])])

MemberArrayIndex(v) ==
    LET index == AsUsize(v.prop) IN
    IF IndexEqualsNum(index, v.prop) /\ index < Len(v.obj.items)
    THEN Ret(swap_remove(v.obj.items, index), TRUE)
    ELSE Ret(Unknown(<<Member(v.obj, v.prop)>>, "invalid index"), TRUE)

MemberArray(v) ==
    LET prop == v.prop IN
    CASE prop.kind = "Unknown" ->
            Ret(items_to_alternatives(v.obj.items, prop), TRUE)
      [] prop.kind = "Constant" /\ prop.ty = "Num" -> MemberArrayIndex(v)
      [] prop.kind = "Constant" /\ prop.ty # "Num" ->
            Ret(make_unknown(v, "non-num constant property on array"), TRUE)
      [] prop.kind = "Array" ->
            Ret(make_unknown(v, "array property on array"), TRUE)
      [] prop.kind = "Object" ->
            Ret(make_unknown(v, "object property on array"), TRUE)
      [] prop.kind = "Url" ->
            Ret(make_unknown(v, "url property on array"), TRUE)
      [] prop.kind = "Function" ->
            Ret(make_unknown(v, "function property on array"), TRUE)
      [] prop.kind = "Alternatives" ->
            Ret(DistributeProp(v.obj, prop.items), TRUE)
      [] prop.kind \in {"Concat", "Add"} ->
            IF has_placeholder(prop)
            THEN Ret(v, FALSE)
            ELSE Ret(items_to_alternatives(v.obj.items, prop), TRUE)
      [] prop.kind \in DeferredKinds -> Ret(v, FALSE)

\* The spread value itself offered as an alternative.
PartAlternativeSpreadValue(part, prop) == part.val

PartAlternative(part, prop) ==
    IF part.part = "KeyValue"
    THEN part.val
    ELSE Unknown(<<Member(Object(<<part>>), prop)>>, "spreaded object")

parts_to_alternatives(parts, prop) ==
    Alternatives(
        Append([i \in 1..Len(parts) |-> PartAlternative(parts[i], prop)],
               Unknown(<<Member(Object(<<>>), prop)>>,
                       "unknown object prototype methods or values")))

\* The scan run from the front: the first write wins.
RECURSIVE ObjectLookupFirstWins(_, _)
ObjectLookupFirstWins(v, i) ==
    IF i = 0 THEN Ret(Undefined, TRUE)
    ELSE LET part == v.obj.parts[Len(v.obj.parts) - i + 1] IN
         IF part.part = "KeyValue"
         THEN IF part.key = v.prop
              THEN Ret(part.val, TRUE)
              ELSE ObjectLookupFirstWins(v, i - 1)
         ELSE Ret(make_unknown(v, "spreaded object"), TRUE)

\* `for part in parts.into_iter().rev()`: i is the part looked at, 0 when
\* the loop has run off the front of the list.
RECURSIVE ObjectLookup(_, _)
ObjectLookup(v, i) ==
    IF i = 0 THEN Ret(Undefined, TRUE)
    ELSE LET part == v.obj.parts[i] IN
         IF part.part = "KeyValue"
         THEN IF part.key = v.prop
              THEN Ret(part.val, TRUE)
              ELSE ObjectLookup(v, i - 1)
         ELSE Ret(make_unknown(v, "spreaded object"), TRUE)

MemberObject(v) ==
    LET prop == v.prop IN
    CASE prop.kind = "Unknown" ->
            Ret(parts_to_alternatives(v.obj.parts, prop), TRUE)
      [] prop.kind = "Constant" -> ObjectLookup(v, Len(v.obj.parts))
      [] prop.kind = "Array" ->
            Ret(make_unknown(v, "array property on object"), TRUE)
      [] prop.kind = "Object" ->
            Ret(make_unknown(v, "object property on object"), TRUE)
      [] prop.kind = "Url" ->
            Ret(make_unknown(v, "url property on object"), TRUE)
      [] prop.kind = "Function" ->
            Ret(make_unknown(v, "function property on object"), TRUE)
      [] prop.kind = "Alternatives" ->
            Ret(DistributeProp(v.obj, prop.items), TRUE)
      [] prop.kind \in {"Concat", "Add"} ->
            IF has_placeholder(prop)
            THEN Ret(v, FALSE)
            ELSE Ret(parts_to_alternatives(v.obj.parts, prop), TRUE)
      [] prop.kind \in DeferredKinds ->
            DebugAssert(has_placeholder(prop), Ret(v, FALSE))

MemberAlternatives(v) ==
    Alternatives([i \in 1..Len(v.obj.items) |-> Member(v.obj.items[i], v.prop)])

MemberRule(v) ==
    LET obj == v.obj IN
    CASE obj.kind = "Constant" -> Ret(make_unknown(v, "property on constant"), TRUE)
      [] obj.kind = "Url" -> Ret(make_unknown(v, "property on url"), TRUE)
      [] obj.kind = "Concat" -> Ret(make_unknown(v, "property on string"), TRUE)
      [] obj.kind = "Add" ->
            Ret(make_unknown(v, "property on number or string"), TRUE)
      [] obj.kind = "Unknown" -> Ret(make_unknown(v, "property on unknown"), TRUE)
      [] obj.kind = "Function" -> Ret(make_unknown(v, "property on function"), TRUE)
      [] obj.kind = "Alternatives" -> Ret(MemberAlternatives(v), TRUE)
      [] obj.kind = "Array" -> MemberArray(v)
      [] obj.kind = "Object" -> MemberObject(v)
      [] obj.kind \in DeferredKinds ->
            DebugAssert(has_placeholder(obj), Ret(v, FALSE))

-----------------------------------------------------------------------------
(* MemberCall *)

\* The whitelist left open.
ConcatArgAllowedAny(arg) == TRUE

\* The matches!(..) whitelist of the `all` test of the concat rule.
ConcatArgAllowed(arg) ==
    arg.kind \in {"Array", "Constant", "Url", "Concat", "Add", "WellKnownObject",
                  "WellKnownFunction", "Function"}

\* The arms of the splice loop that push the argument as one element.
ConcatPushKinds ==
    {"Constant", "Url", "Concat", "Add", "WellKnownObject", "WellKnownFunction",
     "Function"}

\* `_ => unreachable!()`
ConcatUnreachable(arg) == arg.kind # "Array" /\ arg.kind \notin ConcatPushKinds

\* Every argument pushed as one element, arrays too.
ConcatPiecesPushAll(arg) == <<arg>>

\* What one argument adds to items: items.extend(take(inner)) or
\* items.push(take(arg)).
ConcatPieces(arg) == IF arg.kind = "Array" THEN arg.items ELSE <<arg>>

ConcatSplice(v) ==
    IF \E i \in 1..Len(v.args) : ConcatUnreachable(v.args[i])
    THEN Abort(v)
    ELSE Ret(Array(v.obj.items \o
                   FlattenSeq([i \in 1..Len(v.args) |-> ConcatPieces(v.args[i])])),
             TRUE)

IsConcatCall(v) ==
    /\ v.obj.kind = "Array"
    /\ v.prop.kind = "Constant" /\ v.prop.ty = "Str" /\ v.prop.s = "concat"
    /\ \A i \in 1..Len(v.args) : ConcatArgAllowed(v.args[i])

MemberCallAlternatives(v) ==
    Alternatives([i \in 1..Len(v.obj.items) |->
                    MemberCall(v.obj.items[i], v.prop, v.args)])

\* The node kept as the MemberCall it was.
MemberCallGenericKept(v) == v

MemberCallGeneric(v) == Call(Member(v.obj, v.prop), v.args)

MemberCallRule(v) ==
    IF IsConcatCall(v) THEN ConcatSplice(v)
    ELSE IF v.obj.kind = "Alternatives" THEN Ret(MemberCallAlternatives(v), TRUE)
    ELSE Ret(MemberCallGeneric(v), TRUE)

-----------------------------------------------------------------------------
(* Call *)

\* The traversal not stopped at nested Functions.
InlineConditionAlways(v) == TRUE

\* The `condition` closure of the inlining: descend unless at a Function.
InlineCondition(v) == v.kind # "Function"

\* The `visitor` closure of the inlining: args.get(index).cloned(), else
\* the free variable undefined.
InlineVisitor(v, args) ==
    IF v.kind = "Argument"
    THEN IF v.index < Len(args) THEN args[v.index + 1] ELSE Undefined
    ELSE v

RECURSIVE visit_mut_conditional(_, _)
VisitPart(p, args) ==
    IF p.part = "KeyValue"
    THEN KeyValue(visit_mut_conditional(p.key, args),
                  visit_mut_conditional(p.val, args))
    ELSE Spread(visit_mut_conditional(p.val, args))

VisitSeq(s, args) == [i \in 1..Len(s) |-> visit_mut_conditional(s[i], args)]

\* for_each_children_mut with the recursive visit as its callback.
VisitChildren(v, args) ==
    CASE v.kind \in ListKinds -> [v EXCEPT !.items = VisitSeq(v.items, args)]
      [] v.kind = "Object" ->
            [v EXCEPT !.parts = [i \in 1..Len(v.parts) |-> VisitPart(v.parts[i], args)]]
      [] v.kind = "Url" -> [v EXCEPT !.val = visit_mut_conditional(v.val, args)]
      [] v.kind = "Function" -> [v EXCEPT !.body = visit_mut_conditional(v.body, args)]
      [] v.kind = "Call" ->
            [v EXCEPT !.callee = visit_mut_conditional(v.callee, args),
                      !.args = VisitSeq(v.args, args)]
      [] v.kind = "MemberCall" ->
            [v EXCEPT !.obj = visit_mut_conditional(v.obj, args),
                      !.prop = visit_mut_conditional(v.prop, args),
                      !.args = VisitSeq(v.args, args)]
      [] v.kind = "Member" ->
            [v EXCEPT !.obj = visit_mut_conditional(v.obj, args),
                      !.prop = visit_mut_conditional(v.prop, args)]
      [] OTHER -> v

\* Children first, then the node itself; nothing below a node the condition
\* rejects is visited.
visit_mut_conditional(v, args) ==
    IF InlineCondition(v) THEN InlineVisitor(VisitChildren(v, args), args) ELSE v

CallFunction(v) == Ret(visit_mut_conditional(v.callee.body, v.args), TRUE)

\* The distribution with the arguments lost.
CallAlternativesNoArgs(v) ==
    Alternatives([i \in 1..Len(v.callee.items) |-> Call(v.callee.items[i], <<>>)])

CallAlternatives(v) ==
    Alternatives([i \in 1..Len(v.callee.items) |-> Call(v.callee.items[i], v.args)])

CallRule(v) ==
    LET callee == v.callee IN
    CASE callee.kind = "Unknown" ->
            Ret(make_unknown(v, "call of unknown function"), TRUE)
      [] callee.kind = "Array" -> Ret(make_unknown(v, "call of array"), TRUE)
      [] callee.kind = "Object" -> Ret(make_unknown(v, "call of object"), TRUE)
      [] callee.kind = "Constant" -> Ret(make_unknown(v, "call of constant"), TRUE)
      [] callee.kind = "Url" -> Ret(make_unknown(v, "call of url"), TRUE)
      [] callee.kind = "Concat" -> Ret(make_unknown(v, "call of string"), TRUE)
      [] callee.kind = "Add" ->
            Ret(make_unknown(v, "call of number or string"), TRUE)
      [] callee.kind = "Function" -> CallFunction(v)
      [] callee.kind = "Alternatives" -> Ret(CallAlternatives(v), TRUE)
      [] callee.kind \in DeferredKinds ->
            DebugAssert(has_placeholder(callee), Ret(v, FALSE))

-----------------------------------------------------------------------------
(* Object *)

IsSpreadObject(part) == part.part = "Spread" /\ part.val.kind = "Object"

\* Every Spread part taken for a Spread of an Object.
FlattenPartDropSpread(part) ==
    IF part.part = "Spread"
    THEN IF part.val.kind = "Object" THEN part.val.parts ELSE <<>>
    ELSE <<part>>

\* parts.extend(inner_parts) or parts.push(part)
FlattenPart(part) == IF IsSpreadObject(part) THEN part.val.parts ELSE <<part>>

ObjectRule(v) ==
    IF \E i \in 1..Len(v.parts) : IsSpreadObject(v.parts[i])
    THEN Ret(Object(FlattenSeq([i \in 1..Len(v.parts) |-> FlattenPart(v.parts[i])])),
             TRUE)
    ELSE Ret(v, FALSE)

IsInliningNode(v) == v.kind = "Call" /\ v.callee.kind = "Function"

replace_builtin(v) ==
    CASE v.kind = "Member" -> MemberRule(v)
      [] v.kind = "MemberCall" -> MemberCallRule(v)
      [] v.kind = "Call" -> CallRule(v)
      [] v.kind = "Object" -> ObjectRule(v)
      [] OTHER -> Ret(v, FALSE)

-----------------------------------------------------------------------------
(* The values replace_builtin is applied to *)

SeqsOf(S) == UNION {[1..n -> S] : n \in 0..MaxLen}

\* x => x(x)
SelfApply == Function(Call(Argument(0), <<Argument(0)>>))

ArrayItems == {Str("a"), Str("b"), FreeVar("x")}
SmallItems == {Str("a"), FreeVar("x")}
AltItems ==
    {Str("a"), Array(<<Str("a"), Str("b")>>), Alternatives(<<Str("b")>>),
     Function(Argument(0))}

ObjectParts ==
    {KeyValue(Str("a"), Str("v1")), KeyValue(Str("a"), Str("v2")),
     KeyValue(Str("b"), FreeVar("x")), KeyValue(Num(2), Str("v3")),
     Spread(FreeVar("s")),
     Spread(Object(<<>>)),
     Spread(Object(<<KeyValue(Str("a"), Str("v4")), Spread(FreeVar("t"))>>)),
     Spread(Object(<<Spread(Object(<<KeyValue(Str("b"), Str("v5"))>>))>>))}

\* -1, -0.5, 0, 0.5, .. up to past the longest array, and NaN
NumProps == {Num(h) : h \in -2..(2 * MaxLen + 2)} \cup {NaN}

DeferredValues ==
    {FreeVar("x"), Variable("v"), Call(FreeVar("f"), <<>>),
     MemberCall(FreeVar("o"), Str("m"), <<>>), Member(FreeVar("o"), Str("p")),
     WellKnownObject("process"), Argument(0), WellKnownFunction("require"),
     Module("fs")}

Props ==
    NumProps \cup DeferredValues \cup
    {Unknown(<<>>, "p"), Str("a"), Str("b"), Str("concat"),
     Array(<<Str("a")>>), Object(<<>>), Url(Str("u")), Function(Argument(0)),
     Alternatives(<<Str("a"), Num(2)>>), Alternatives(<<>>),
     Concat(<<Str("a"), Str("b")>>), Concat(<<Str("a"), FreeVar("x")>>),
     Add(<<Num(2), Str("a")>>), Add(<<Argument(0)>>)}

OpaqueValues ==
    {Str("a"), Num(2), Url(Str("u")), Concat(<<Str("a"), Str("b")>>),
     Add(<<Num(2), Str("a")>>), Unknown(<<>>, "u"), Function(Argument(0))}

MemberInputs ==
    {Member(o, p) :
        o \in {Array(s) : s \in SeqsOf(ArrayItems)}
              \cup {Object(s) : s \in SeqsOf(ObjectParts)}
              \cup {Alternatives(s) : s \in SeqsOf(AltItems)}
              \cup OpaqueValues \cup DeferredValues,
        p \in Props}

ConcatArgs ==
    {Array(<<Str("c"), Str("d")>>), Array(<<>>), Str("e"), Url(Str("u")),
     Concat(<<Str("a")>>), Add(<<Num(2)>>), WellKnownObject("process"),
     WellKnownFunction("require"), Function(Argument(0)),
     Unknown(<<>>, "u"), Alternatives(<<Array(<<Str("c")>>)>>), FreeVar("x")}

ConcatInputs ==
    {MemberCall(Array(items), Str("concat"), args) :
        items \in SeqsOf(SmallItems), args \in SeqsOf(ConcatArgs)}

MemberCallInputs ==
    {MemberCall(o, p, args) :
        o \in {Alternatives(s) : s \in SeqsOf(AltItems)}
              \cup {Array(s) : s \in SeqsOf(SmallItems)}
              \cup {Str("a"), Object(<<>>), FreeVar("x"), Unknown(<<>>, "u")},
        p \in {Str("concat"), Str("a"), Unknown(<<>>, "p"),
               Alternatives(<<Str("concat"), Str("a")>>)},
        args \in SeqsOf({Array(<<Str("c")>>), Unknown(<<>>, "u")})}

Bodies ==
    {Argument(0), Argument(1), Argument(2), Str("k"),
     Add(<<Argument(0), Str("x")>>),
     Function(Argument(0)),
     Array(<<Argument(0), Function(Argument(1)), Argument(1)>>),
     Concat(<<Argument(2), Argument(0)>>),
     Alternatives(<<Argument(1), Function(Add(<<Argument(0)>>))>>),
     Object(<<KeyValue(Argument(0), Argument(1)), Spread(Argument(0)),
              KeyValue(Str("f"), Function(Argument(0)))>>),
     Url(Argument(0)),
     Member(Argument(0), Argument(1)),
     MemberCall(Argument(1), Str("concat"), <<Argument(0)>>),
     Call(Argument(0), <<Argument(0)>>),
     Call(Function(Argument(0)), <<Argument(1)>>),
     Unknown(<<Argument(0)>>, "u"),
     Array(<<Array(<<Argument(0), Member(Argument(1), Function(Argument(0)))>>)>>)}

CallArgs == {Str("y"), Argument(1), SelfApply}

CallInputs ==
    {Call(c, args) :
        c \in {Function(b) : b \in Bodies}
              \cup {Alternatives(s) : s \in SeqsOf(AltItems)}
              \cup {Array(<<>>), Object(<<>>)}
              \cup OpaqueValues \cup DeferredValues,
        args \in SeqsOf(CallArgs)}

ObjectInputs == {Object(s) : s \in SeqsOf(ObjectParts)}

OtherInputs ==
    {Array(<<Member(Str("a"), Str("b"))>>), Alternatives(<<>>), Undefined}
    \cup OpaqueValues \cup DeferredValues

Inputs ==
    MemberInputs \cup ConcatInputs \cup MemberCallInputs \cup CallInputs
    \cup ObjectInputs \cup OtherInputs

-----------------------------------------------------------------------------
(* Pattern mapping *)

NoId == [form |-> "none", asset |-> ""]
NoMapping == [variant |-> "None", id |-> NoId, s |-> ""]
NoResult == [shape |-> "None", assets |-> <<>>, special |-> "", s |-> ""]

\* An asset is a name and whether it can be placed in an ecmascript chunk.
Assets == [name : {"m1", "m2"}, placeable : BOOLEAN]

\* ResolveResult, by the arms resolve_request matches: Alternatives(assets),
\* Single(asset), Special(OriginalReferenceExternal),
\* Special(OriginalReferenceTypeExternal(s)), and every other shape ("_").
ResultAlternatives(assets) ==
    [shape |-> "Alternatives", assets |-> assets, special |-> "", s |-> ""]
ResultSingle(asset) ==
    [shape |-> "Single", assets |-> <<asset>>, special |-> "", s |-> ""]
ResultExternal ==
    [shape |-> "Special", assets |-> <<>>,
     special |-> "OriginalReferenceExternal", s |-> ""]
ResultTypeExternal(str) ==
    [shape |-> "Special", assets |-> <<>>,
     special |-> "OriginalReferenceTypeExternal", s |-> str]
ResultOther(what) ==
    [shape |-> what, assets |-> <<>>, special |-> "", s |-> ""]

ResolveResults ==
    {ResultAlternatives(as) : as \in SeqsOf(Assets)}
    \cup {ResultSingle(a) : a \in Assets}
    \cup {ResultExternal}
    \cup {ResultTypeExternal(str) : str \in {"fs", "path"}}
    \cup {ResultOther(w) : w \in {"Keyed", "Unresolveable"}}

ResolveTypes == {"EsmAsync", "Cjs"}

PMInvalid == [variant |-> "Invalid", id |-> NoId, s |-> ""]
PMSingle(id) == [variant |-> "Single", id |-> id, s |-> ""]
PMOriginalReferenceExternal ==
    [variant |-> "OriginalReferenceExternal", id |-> NoId, s |-> ""]
PMOriginalReferenceTypeExternal(str) ==
    [variant |-> "OriginalReferenceTypeExternal", id |-> NoId, s |-> str]

\* The chunk context's two id queries.
manifest_loader_id(asset) == [form |-> "manifest_loader", asset |-> asset.name]
chunk_id(asset) == [form |-> "direct", asset |-> asset.name]

\* EcmascriptChunkPlaceableVc::resolve_from(asset): Some or None
resolve_from(asset) == IF asset.placeable THEN <<asset>> ELSE <<>>

CodeGenerationIssue(title) == [severity |-> "Bug", title |-> title]

Outcome(m, emitted) == [mapping |-> m, emitted |-> emitted]

\* The two id forms taken for each other.
PlaceAssetSwappedIds(asset, ty) ==
    IF resolve_from(asset) # <<>>
    THEN Outcome(PMSingle(IF ty = "EsmAsync"
                          THEN chunk_id(resolve_from(asset)[1])
                          ELSE manifest_loader_id(asset)),
                 <<>>)
    ELSE Outcome(PMInvalid,
                 <<CodeGenerationIssue("non-ecmascript placeable asset")>>)

\* The asset that cannot be placed dropped without a report.
PlaceAssetSilent(asset, ty) ==
    IF resolve_from(asset) # <<>>
    THEN Outcome(PMSingle(IF ty = "EsmAsync"
                          THEN manifest_loader_id(asset)
                          ELSE chunk_id(resolve_from(asset)[1])),
                 <<>>)
    ELSE Outcome(PMInvalid, <<>>)

\* The second half of resolve_request: the asset is placed, or reported.
PlaceAsset(asset, ty) ==
    IF resolve_from(asset) # <<>>
    THEN Outcome(PMSingle(IF ty = "EsmAsync"
                          THEN manifest_loader_id(asset)
                          ELSE chunk_id(resolve_from(asset)[1])),
                 <<>>)
    ELSE Outcome(PMInvalid,
                 <<CodeGenerationIssue("non-ecmascript placeable asset")>>)

resolve_request(result, ty) ==
    CASE result.shape = "Alternatives" ->
            IF result.assets # <<>>
            THEN PlaceAsset(Head(result.assets), ty)
            ELSE Outcome(PMInvalid, <<>>)
      [] result.shape = "Single" -> PlaceAsset(result.assets[1], ty)
      [] result.shape = "Special"
         /\ result.special = "OriginalReferenceExternal" ->
            Outcome(PMOriginalReferenceExternal, <<>>)
      [] result.shape = "Special"
         /\ result.special = "OriginalReferenceTypeExternal" ->
            Outcome(PMOriginalReferenceTypeExternal(result.s), <<>>)
      [] OTHER ->
            Outcome(PMInvalid,
                    <<CodeGenerationIssue(
                        "not implemented result for pattern mapping")>>)

-----------------------------------------------------------------------------
(* Code generation from a PatternMapping.  An Expr is the key expression    *)
(* of the call site, a string literal, the literal of a module id, or the   *)
(* throwing stub.                                                           *)

NoExpr == [expr |-> "None", s |-> "", id |-> NoId]
KeyExpr(name) == [expr |-> "Key", s |-> name, id |-> NoId]
\* Expr::Lit(Lit::Str(s))
LitStr(str) == [expr |-> "LitStr", s |-> str, id |-> NoId]
\* quote!("(() => {throw new Error(\"Invalid\")})()" as Expr)
ThrowInvalid == [expr |-> "ThrowInvalid", s |-> "", id |-> NoId]
module_id_to_lit(id) == [expr |-> "ModuleIdLit", s |-> "", id |-> id]

\* The key expressions of the call sites; the second is itself the string
\* literal of an override.
KeyExprs == {KeyExpr("k1"), LitStr("fs")}

Made(e) == [expr |-> e, panic |-> FALSE]
\* todo!(..)
Todo == [expr |-> NoExpr, panic |-> TRUE]

create(m) ==
    CASE m.variant = "Invalid" -> Made(ThrowInvalid)
      [] m.variant = "Single" -> Made(module_id_to_lit(m.id))
      [] m.variant = "Map" -> Todo
      [] m.variant = "OriginalReferenceExternal" -> Todo
      [] m.variant = "OriginalReferenceTypeExternal" -> Made(LitStr(m.s))

\* The match of apply without its first arm: every mapping goes to create.
applyAlwaysCreate(m, key) == create(m)

apply(m, key) ==
    IF m.variant = "OriginalReferenceExternal" THEN Made(key) ELSE create(m)

-----------------------------------------------------------------------------
(* The rewrite engine as a state machine: the driver calls replace_builtin  *)
(* on the value again and again.                                            *)

Init ==
    /\ value \in Inputs
    /\ prev = value
    /\ changed = FALSE
    /\ panicked = FALSE
    /\ pc = "start"
    /\ resolve_result = NoResult
    /\ resolve_type = "Cjs"
    /\ mapping = NoMapping
    /\ issues = <<>>
    /\ pm_pc = "idle"
    /\ key_expr = NoExpr
    /\ expr = NoExpr
    /\ pm_panicked = FALSE
    /\ seen = {}
    /\ reproduced = FALSE
    /\ inlined = FALSE

ReplaceBuiltin ==
    /\ ~panicked
    /\ LET r == replace_builtin(value) IN
        /\ value' = r.value
        /\ changed' = r.changed
        /\ panicked' = r.panic
    /\ prev' = value
    /\ pc' = "called"
    /\ UNCHANGED pm_vars
    /\ UNCHANGED dr_vars

Next == ReplaceBuiltin

Spec == Init /\ [][Next]_vars

-----------------------------------------------------------------------------
(* Pattern mapping as a state machine: one resolve_request per import site. *)

InitPM ==
    /\ resolve_result \in ResolveResults
    /\ resolve_type \in ResolveTypes
    /\ mapping = NoMapping
    /\ issues = <<>>
    /\ pm_pc = "start"
    /\ key_expr \in KeyExprs
    /\ expr = NoExpr
    /\ pm_panicked = FALSE
    /\ seen = {}
    /\ reproduced = FALSE
    /\ inlined = FALSE
    /\ value = Undefined
    /\ prev = Undefined
    /\ changed = FALSE
    /\ panicked = FALSE
    /\ pc = "idle"

ResolveRequest ==
    /\ pm_pc = "start"
    /\ LET r == resolve_request(resolve_result, resolve_type) IN
        /\ mapping' = r.mapping
        /\ issues' = issues \o r.emitted
    /\ pm_pc' = "resolved"
    /\ UNCHANGED <<resolve_result, resolve_type, key_expr, expr, pm_panicked>>
    /\ UNCHANGED rb_vars
    /\ UNCHANGED dr_vars

\* Code generation calls mapping.create() ...
Create ==
    /\ pm_pc = "resolved"
    /\ LET r == create(mapping) IN
        /\ expr' = r.expr
        /\ pm_panicked' = r.panic
    /\ pm_pc' = "created"
    /\ UNCHANGED <<resolve_result, resolve_type, mapping, issues, key_expr>>
    /\ UNCHANGED rb_vars
    /\ UNCHANGED dr_vars

\* ... or mapping.apply(key_expr).
Apply ==
    /\ pm_pc = "resolved"
    /\ LET r == apply(mapping, key_expr) IN
        /\ expr' = r.expr
        /\ pm_panicked' = r.panic
    /\ pm_pc' = "applied"
    /\ UNCHANGED <<resolve_result, resolve_type, mapping, issues, key_expr>>
    /\ UNCHANGED rb_vars
    /\ UNCHANGED dr_vars

NextPM == ResolveRequest \/ Create \/ Apply

SpecPM == InitPM /\ [][NextPM]_vars

-----------------------------------------------------------------------------
(* The fixed-point driver: replace_builtin is applied to the nodes of the   *)
(* tree, in any order, for as long as a rule fires at some node.            *)

\* The paths of child positions to every node of v.
RECURSIVE PathsOf(_)
PathsOf(v) ==
    {<<>>} \cup
    UNION {{<<i>> \o q : q \in PathsOf(Children(v)[i])} : i \in 1..Len(Children(v))}

RECURSIVE NodeAt(_, _)
NodeAt(v, p) == IF p = <<>> THEN v ELSE NodeAt(Children(v)[Head(p)], Tail(p))

\* The children taken by the parts before part i.
RECURSIVE PartOffset(_, _)
PartOffset(parts, i) ==
    IF i = 1 THEN 0
    ELSE PartOffset(parts, i - 1) + Len(PartChildren(parts[i - 1]))

\* v with cs for its children.
WithChildren(v, cs) ==
    CASE v.kind \in ListKinds -> [v EXCEPT !.items = cs]
      [] v.kind = "Object" ->
            [v EXCEPT !.parts =
                [i \in 1..Len(v.parts) |->
                    LET off == PartOffset(v.parts, i) IN
                    IF v.parts[i].part = "KeyValue"
                    THEN KeyValue(cs[off + 1], cs[off + 2])
                    ELSE Spread(cs[off + 1])]]
      [] v.kind = "Url" -> Url(cs[1])
      [] v.kind = "Function" -> Function(cs[1])
      [] v.kind = "Call" -> Call(cs[1], SubSeq(cs, 2, Len(cs)))
      [] v.kind = "MemberCall" -> MemberCall(cs[1], cs[2], SubSeq(cs, 3, Len(cs)))
      [] v.kind = "Member" -> Member(cs[1], cs[2])
      [] OTHER -> v

\* v with the node at path p replaced by new.
RECURSIVE PutAt(_, _, _)
PutAt(v, p, new) ==
    IF p = <<>> THEN new
    ELSE WithChildren(v, [Children(v) EXCEPT
                            ![Head(p)] = PutAt(Children(v)[Head(p)], Tail(p), new)])

\* A rule fires at the node at p.
FiresAt(v, p) == replace_builtin(NodeAt(v, p)).changed

Settled == \A p \in PathsOf(value) : ~FiresAt(value, p)

\* (x, y) => y(y, x) and (x, y) => y(x, y)
SwapApply == Function(Call(Argument(1), <<Argument(1), Argument(0)>>))
KeepApply == Function(Call(Argument(1), <<Argument(0), Argument(1)>>))

DriverNodes ==
    {Member(Alternatives(<<Array(<<Str("a"), Str("b")>>), Str("a")>>), Num(0)),
     MemberCall(Array(<<Str("a")>>), Str("concat"), <<Array(<<Str("c")>>)>>),
     MemberCall(FreeVar("x"), Str("m"), <<>>),
     Object(<<Spread(Object(<<Spread(Object(<<KeyValue(Str("b"), Str("v5"))>>))>>))>>),
     Call(Function(Member(Argument(0), Str("a"))),
          <<Object(<<KeyValue(Str("a"), Str("v1"))>>)>>),
     Call(SelfApply, <<SelfApply>>),
     Call(SwapApply, <<KeepApply, SwapApply>>),
     Member(Array(<<Str("a")>>), Alternatives(<<Num(0), Unknown(<<>>, "p")>>)),
     Call(Alternatives(<<Function(Argument(0)), Str("a")>>), <<Str("y")>>),
     Member(Member(Object(<<KeyValue(Str("a"), Array(<<Str("b")>>))>>), Str("a")),
            Num(0)),
     MemberCall(Alternatives(<<Array(<<Str("a")>>), Array(<<>>)>>), Str("concat"),
                <<Str("e")>>),
     Function(Member(Object(<<KeyValue(Str("a"), Argument(0))>>), Str("a")))}

DriverInputs ==
    DriverNodes
    \cup {Array(<<x, y>>) :
            x \in DriverNodes,
            y \in {Member(Array(<<Str("a")>>), Alternatives(<<Num(0), Unknown(<<>>, "p")>>)),
                   Call(SelfApply, <<SelfApply>>),
                   MemberCall(FreeVar("x"), Str("m"), <<>>)}}
    \cup {Member(Alternatives(s), Num(0)) :
            s \in SeqsOf({Array(<<Str("a")>>), Str("a")})}
    \cup {Call(Alternatives(s), <<Str("y")>>) :
            s \in SeqsOf({Function(Argument(0)), Str("a")})}

InitDriver ==
    /\ value \in DriverInputs
    /\ prev = value
    /\ changed = FALSE
    /\ panicked = FALSE
    /\ pc = "start"
    /\ seen = {}
    /\ reproduced = FALSE
    /\ inlined = FALSE
    /\ resolve_result = NoResult
    /\ resolve_type = "Cjs"
    /\ mapping = NoMapping
    /\ issues = <<>>
    /\ pm_pc = "idle"
    /\ key_expr = NoExpr
    /\ expr = NoExpr
    /\ pm_panicked = FALSE

\* One firing: replace_builtin returns true at some node of the tree.
RewriteAt(p) ==
    /\ ~panicked
    /\ LET r == replace_builtin(NodeAt(value, p))
           new == PutAt(value, p, r.value)
       IN  /\ r.changed
           /\ value' = new
           /\ panicked' = r.panic
           /\ reproduced' = (reproduced \/ new \in (seen \cup {value}))
    /\ inlined' = (inlined \/ IsInliningNode(NodeAt(value, p)))
    /\ seen' = seen \cup {value}
    /\ prev' = value
    /\ changed' = TRUE
    /\ pc' = "driven"
    /\ UNCHANGED pm_vars

DriverPass == \E p \in PathsOf(value) : RewriteAt(p)

NextDriver == DriverPass

\* The driver goes on for as long as some rule fires.
SpecDriver == InitDriver /\ [][NextDriver]_vars /\ WF_vars(NextDriver)

-----------------------------------------------------------------------------
(* Properties of replace_builtin.  `prev` is the value the last call was    *)
(* given, `value` the value it left, `changed` what it returned.            *)

Called == pc = "called" /\ ~panicked

\* C1: replace_builtin returns false if and only if the value after the call
\* is identical to the value before the call.
C1_ChangedIffDifferent == Called => ((changed = FALSE) <=> (value = prev))

Missing == [kind |-> "Missing"]

\* The node at a path of child positions, Missing when there is none.
RECURSIVE At(_, _)
At(v, p) ==
    IF p = <<>> THEN v
    ELSE IF v = Missing \/ Head(p) > Len(Children(v)) THEN Missing
    ELSE At(Children(v)[Head(p)], Tail(p))

\* The paths to the nodes reached from v without passing through a Function
\* node (a Function node itself is reached, nothing below it is).
RECURSIVE OpenPaths(_)
OpenPaths(v) ==
    IF v.kind = "Function" THEN {<<>>}
    ELSE {<<>>} \cup
         UNION {{<<i>> \o q : q \in OpenPaths(Children(v)[i])} :
                    i \in 1..Len(Children(v))}

\* Same variant, same number of children in the same places, same own data.
SameNode(a, b) ==
    /\ a.kind = b.kind
    /\ Len(Children(a)) = Len(Children(b))
    /\ a.kind = "Object" =>
        /\ Len(a.parts) = Len(b.parts)
        /\ \A i \in 1..Len(a.parts) : a.parts[i].part = b.parts[i].part
    /\ a.kind \in {"Call", "MemberCall"} => Len(a.args) = Len(b.args)
    /\ Children(a) = <<>> => a = b

IsInlining(v) == v.kind = "Call" /\ v.callee.kind = "Function"

InlinedAt(body, args, result, p) ==
    LET b == At(body, p)
        r == At(result, p)
    IN  CASE b.kind = "Argument" ->
                r = IF b.index < Len(args) THEN args[b.index + 1] ELSE Undefined
          [] b.kind = "Function" -> r = b
          [] OTHER -> SameNode(b, r)

\* C2: Call(Function(body), args) becomes body with every Argument(i) not
\* below a nested Function replaced by args[i], or by undefined when there
\* is no args[i]; nested Functions and the order of children are kept.
C2_FunctionInlining ==
    (Called /\ IsInlining(prev)) =>
        /\ changed
        /\ \A p \in OpenPaths(prev.callee.body) :
                InlinedAt(prev.callee.body, prev.args, value, p)
        /\ prev = Call(Function(Add(<<Argument(0), Str("x")>>)), <<Str("y")>>)
              => value = Add(<<Str("y"), Str("x")>>)

C2_Witness ==
    /\ Called
    /\ prev = Call(Function(Array(<<Argument(0), Function(Argument(1)),
                                    Argument(1)>>)), <<Str("y")>>)
    /\ value = Array(<<Str("y"), Function(Argument(1)), Undefined>>)

IsObjectLookup(v) ==
    v.kind = "Member" /\ v.obj.kind = "Object" /\ v.prop.kind = "Constant"

\* No part after position j is a Spread or a KeyValue with key c.
NothingAfter(parts, j, c) ==
    \A k \in (j + 1)..Len(parts) : parts[k].part = "KeyValue" /\ parts[k].key # c

\* C3: Member(Object(parts), Constant(c)) is the value of the last KeyValue
\* with key c when no Spread follows it, Unknown("spreaded object") when a
\* Spread comes after every KeyValue with key c, undefined when parts has
\* neither; the call returns true.
C3_LastWriteWins ==
    (Called /\ IsObjectLookup(prev)) =>
        LET parts == prev.obj.parts
            c == prev.prop
        IN  /\ changed
            /\ \A j \in 1..Len(parts) :
                NothingAfter(parts, j, c) =>
                    IF parts[j].part = "Spread"
                    THEN value.kind = "Unknown" /\ value.reason = "spreaded object"
                    ELSE parts[j].key = c => value = parts[j].val
            /\ NothingAfter(parts, 0, c) => value = Undefined

C3_Witness ==
    /\ Called
    /\ prev = Member(Object(<<KeyValue(Str("a"), Str("v1")),
                              KeyValue(Str("a"), Str("v2"))>>), Str("a"))
    /\ value = Str("v2")

IsArrayIndex(v) ==
    /\ v.kind = "Member" /\ v.obj.kind = "Array"
    /\ v.prop.kind = "Constant" /\ v.prop.ty = "Num"

\* The number is a non-negative integer below len (n counts halves).
ValidIndex(c, len) == c.s # "NaN" /\ c.n >= 0 /\ c.n % 2 = 0 /\ c.n < 2 * len

\* C4: Member(Array(items), Constant(n)) is the element at position n when n
\* is a non-negative integer below len(items), and Unknown("invalid index")
\* for every other number; both return true.
C4_ArrayIndexing ==
    (Called /\ IsArrayIndex(prev)) =>
        /\ changed
        /\ IF ValidIndex(prev.prop, Len(prev.obj.items))
           THEN value = prev.obj.items[(prev.prop.n \div 2) + 1]
           ELSE value.kind = "Unknown" /\ value.reason = "invalid index"

C4_Witness ==
    /\ Called
    /\ prev = Member(Array(<<Str("a"), FreeVar("x")>>), Num(2))
    /\ value = FreeVar("x")

IsHeadAlternatives(v) ==
    \/ v.kind \in {"Member", "MemberCall"} /\ v.obj.kind = "Alternatives"
    \/ v.kind = "Call" /\ v.callee.kind = "Alternatives"

HeadAlternatives(v) == IF v.kind = "Call" THEN v.callee.items ELSE v.obj.items

\* v with a in head position, property and arguments as they are.
WithHead(v, a) ==
    CASE v.kind = "Member" -> Member(a, v.prop)
      [] v.kind = "MemberCall" -> MemberCall(a, v.prop, v.args)
      [] v.kind = "Call" -> Call(a, v.args)

\* C5: a Member, MemberCall or Call whose head (object or callee) is
\* Alternatives([a1..an]) becomes Alternatives of n nodes of the same kind,
\* the i-th with ai as head and the original property and arguments.
C5_UnionDistribution ==
    (Called /\ IsHeadAlternatives(prev)) =>
        LET alts == HeadAlternatives(prev) IN
        /\ changed
        /\ value.kind = "Alternatives"
        /\ Len(value.items) = Len(alts)
        /\ \A i \in 1..Len(alts) : value.items[i] = WithHead(prev, alts[i])

C5_Witness ==
    /\ Called
    /\ prev = MemberCall(Alternatives(<<Str("a"), Array(<<Str("a"), Str("b")>>)>>),
                         Str("concat"), <<Array(<<Str("c")>>)>>)
    /\ value = Alternatives(
                <<MemberCall(Str("a"), Str("concat"), <<Array(<<Str("c")>>)>>),
                  MemberCall(Array(<<Str("a"), Str("b")>>), Str("concat"),
                             <<Array(<<Str("c")>>)>>)>>)

\* The sum of the lengths of the first n of the sequences ss.
RECURSIVE TotalLen(_, _)
TotalLen(ss, n) == IF n = 0 THEN 0 ELSE TotalLen(ss, n - 1) + Len(ss[n])

\* s is the sequences ss laid end to end.
LaidOut(s, ss) ==
    /\ Len(s) = TotalLen(ss, Len(ss))
    /\ \A i \in 1..Len(ss) : \A k \in 1..Len(ss[i]) :
            s[TotalLen(ss, i - 1) + k] = ss[i][k]

IsConcatOnArray(v) ==
    /\ v.kind = "MemberCall" /\ v.obj.kind = "Array"
    /\ v.prop = Str("concat")

SpliceableKinds ==
    {"Array", "Constant", "Url", "Concat", "Add", "WellKnownObject",
     "WellKnownFunction", "Function"}

\* C6: MemberCall(Array(items), "concat", args) becomes Array(items, then per
\* argument the elements of an Array argument or the argument itself) when
\* every argument is of a spliceable kind, and otherwise
\* Call(Member(Array(items), "concat"), args).
C6_ConcatSpecialization ==
    (Called /\ IsConcatOnArray(prev)) =>
        LET items == prev.obj.items
            args == prev.args
        IN  /\ changed
            /\ IF \A i \in 1..Len(args) : args[i].kind \in SpliceableKinds
               THEN /\ value.kind = "Array"
                    /\ LaidOut(value.items,
                               <<items>> \o
                               [i \in 1..Len(args) |->
                                    IF args[i].kind = "Array"
                                    THEN args[i].items ELSE <<args[i]>>])
               ELSE value = Call(Member(Array(items), Str("concat")), args)

C6_Witness ==
    /\ Called
    /\ prev = MemberCall(Array(<<Str("a"), FreeVar("x")>>), Str("concat"),
                         <<Array(<<Str("c"), Str("d")>>), Str("e")>>)
    /\ value = Array(<<Str("a"), FreeVar("x"), Str("c"), Str("d"), Str("e")>>)

HasSpreadObject(parts) ==
    \E i \in 1..Len(parts) :
        parts[i].part = "Spread" /\ parts[i].val.kind = "Object"

\* C7: Object(parts) with a Spread(Object(inner)) part has every such part
\* replaced by the parts of inner, in place, the other parts kept, and true
\* is returned; without such a part it is unchanged and false is returned.
C7_SpreadFlattening ==
    (Called /\ prev.kind = "Object") =>
        LET parts == prev.parts IN
        IF HasSpreadObject(parts)
        THEN /\ changed
             /\ value.kind = "Object"
             /\ LaidOut(value.parts,
                        [i \in 1..Len(parts) |->
                            IF parts[i].part = "Spread" /\ parts[i].val.kind = "Object"
                            THEN parts[i].val.parts ELSE <<parts[i]>>])
        ELSE ~changed /\ value = prev

C7_Witness ==
    /\ Called
    /\ prev = Object(<<Spread(Object(<<KeyValue(Str("a"), Str("v4")),
                                       Spread(FreeVar("t"))>>)),
                       Spread(FreeVar("s"))>>)
    /\ value = Object(<<KeyValue(Str("a"), Str("v4")), Spread(FreeVar("t")),
                        Spread(FreeVar("s"))>>)

Kinds ==
    {"Constant", "Array", "Object", "Concat", "Add", "Url", "Function", "Call",
     "MemberCall", "Member", "Alternatives", "Unknown", "FreeVar", "Variable",
     "WellKnownObject", "WellKnownFunction", "Argument", "Module"}

RECURSIVE WellFormed(_)
WellFormed(v) ==
    /\ v.kind \in Kinds
    /\ \A i \in 1..Len(Children(v)) : WellFormed(Children(v)[i])
    /\ v.kind = "Object" =>
        \A i \in 1..Len(v.parts) : v.parts[i].part \in {"KeyValue", "Spread"}
    /\ v.kind = "Unknown" =>
        Len(v.inner) <= 1 /\ \A i \in 1..Len(v.inner) : WellFormed(v.inner[i])
    /\ v.kind = "Constant" => v.ty \in {"Str", "Num"}
    /\ v.kind = "Argument" => v.index \in Nat

\* C8: replace_builtin never aborts (the unreachable!() of the concat rule
\* is not reached, every debug assertion on a deferred object, property or
\* callee holds) and leaves a valid symbolic value.
C8_NeverFails == ~panicked /\ WellFormed(value)

C8_Witness ==
    /\ Called
    /\ prev = Member(Object(<<>>), Argument(0))
    /\ value = prev
    /\ ~changed

-----------------------------------------------------------------------------
(* Properties of resolve_request *)

Resolved == pm_pc = "resolved"

Candidates == resolve_result.assets

\* C9 as stated: Single(id) if and only if the result has exactly one
\* candidate asset and that asset is placeable.
C9_SingleIffExactlyOne ==
    Resolved =>
        (mapping.variant = "Single"
            <=> (Len(Candidates) = 1 /\ Candidates[1].placeable))

\* C9: resolve_request returns Single(id) if and only if the result has at
\* least one candidate asset and the first one is placeable; id is the
\* manifest-loader id of that first asset for EsmAsync and its direct
\* placement id for Cjs.
C9_SingleIffFirstPlaceable ==
    Resolved =>
        /\ mapping.variant = "Single"
            <=> (Len(Candidates) >= 1 /\ Candidates[1].placeable)
        /\ mapping.variant = "Single" =>
            /\ mapping.id.asset = Candidates[1].name
            /\ mapping.id.form =
                IF resolve_type = "EsmAsync" THEN "manifest_loader" ELSE "direct"

C9_Witness ==
    /\ Resolved
    /\ resolve_result =
        ResultAlternatives(<<[name |-> "m1", placeable |-> TRUE],
                             [name |-> "m2", placeable |-> FALSE]>>)
    /\ resolve_type = "EsmAsync"
    /\ mapping = PMSingle([form |-> "manifest_loader", asset |-> "m1"])

NoCandidates == resolve_result.shape = "Alternatives" /\ Candidates = <<>>

Unrecognized == resolve_result.shape \notin {"Alternatives", "Single", "Special"}

\* C10: no candidate gives Invalid and no diagnostic; an unrecognized result
\* shape, or a sole candidate that is not placeable, gives Invalid and
\* exactly one diagnostic of severity bug; Single and the two external
\* outcomes emit none; so a diagnostic implies Invalid with candidates.
C10_Diagnostics ==
    Resolved =>
        /\ NoCandidates => mapping = PMInvalid /\ issues = <<>>
        /\ (Unrecognized \/ (Len(Candidates) = 1 /\ ~Candidates[1].placeable)) =>
            /\ mapping = PMInvalid
            /\ Len(issues) = 1
            /\ issues[1].severity = "Bug"
        /\ mapping.variant \in {"Single", "OriginalReferenceExternal",
                                "OriginalReferenceTypeExternal"} => issues = <<>>
        /\ issues # <<>> => mapping = PMInvalid /\ ~NoCandidates

C10_Witness ==
    /\ Resolved
    /\ resolve_result = ResultSingle([name |-> "m1", placeable |-> FALSE])
    /\ mapping = PMInvalid
    /\ Len(issues) = 1

\* C11: the external marker is classified OriginalReferenceExternal and
\* apply(K) on it returns K without reaching create's unimplemented arm; the
\* marker with override s is classified OriginalReferenceTypeExternal(s) and
\* apply(K) on it returns the string literal s whatever K is.
C11_ExternalPassThrough ==
    /\ (pm_pc \in {"resolved", "applied"} /\ resolve_result = ResultExternal) =>
            mapping = PMOriginalReferenceExternal
    /\ (pm_pc \in {"resolved", "applied"} /\ resolve_result.shape = "Special"
        /\ resolve_result.special = "OriginalReferenceTypeExternal") =>
            mapping = PMOriginalReferenceTypeExternal(resolve_result.s)
    /\ (pm_pc = "applied" /\ mapping.variant = "OriginalReferenceExternal") =>
            ~pm_panicked /\ expr = key_expr
    /\ (pm_pc = "applied" /\ mapping.variant = "OriginalReferenceTypeExternal") =>
            /\ ~pm_panicked
            /\ expr.expr = "LitStr" /\ expr.s = mapping.s /\ expr.id = NoId

C11_Witness ==
    /\ pm_pc = "applied"
    /\ resolve_result = ResultExternal
    /\ key_expr = KeyExpr("k1")
    /\ expr = KeyExpr("k1")
    /\ ~pm_panicked

\* The other half of the claim's case: the override replaces the key.
C11_OverrideReached ==
    /\ pm_pc = "applied"
    /\ resolve_result = ResultTypeExternal("path")
    /\ key_expr = LitStr("fs")
    /\ expr = LitStr("path")


IsJoin(v) ==
    /\ v.kind = "Member" /\ v.obj.kind \in {"Array", "Object"}
    /\ v.prop.kind \in {"Unknown", "Concat", "Add"}

\* The elements of an Array, the parts of an Object.
Entries(obj) == IF obj.kind = "Array" THEN obj.items ELSE obj.parts

\* The alternative that entry e of obj is to contribute.
Contributes(obj, e, alt) ==
    CASE obj.kind = "Array" -> alt = e
      [] obj.kind = "Object" /\ e.part = "KeyValue" -> alt = e.val
      [] obj.kind = "Object" /\ e.part = "Spread" ->
            /\ alt.kind = "Unknown" /\ alt.reason = "spreaded object"
            /\ alt # e.val

CatchAllReason(obj) ==
    IF obj.kind = "Array"
    THEN "unknown array prototype methods or values"
    ELSE "unknown object prototype methods or values"

C13_DeferredReached ==
    /\ Called
    /\ prev = Member(Array(<<Str("a")>>), Concat(<<Str("a"), FreeVar("x")>>))
    /\ ~changed


-----------------------------------------------------------------------------
(* Properties of the driver's runs *)

C12_CycleReached ==
    /\ reproduced
    /\ value = Call(SwapApply, <<KeepApply, SwapApply>>)
    /\ Cardinality(seen) = 3

====
